---- MODULE Spec2Model ----
(***************************************************************************)
(* The tool layer of the Creative Writing Assistant (src/src/tools.ts):    *)
(* five template generators, the three schedule-adapter tools that call    *)
(* the agent's scheduler, and the two lookups `tools` and `executions`.    *)
(*                                                                         *)
(* Strings are TLA+ strings; a character of the source that is not ASCII   *)
(* (the emoji of the headings) is written "#".  A parameter the schema     *)
(* marks optional is <<>> when it is left out and <<v>> when it is given.  *)
(***************************************************************************)
EXTENDS Integers, Sequences, FiniteSets, TLC

VARIABLES
    tools,        \* the exported `tools` object: tool name -> descriptor
    executions,   \* the exported `executions` object: the names it holds
    store,        \* the scheduler's task records, in the order getSchedules lists them
    nextId,       \* the number of task records the scheduler has created so far
    inv,          \* the invocations of the schedule-adapter tools, by slot
    gen           \* the last call of a template generator: tool, args, result

vars == <<tools, executions, store, nextId, inv, gen>>

----------------------------------------------------------------------------
\* Bounds of the model.

\* Invocation slots: how many adapter invocations can be in progress at once.
MaxInv == 1
\* Task records the scheduler creates in a run.
MaxTasks == 2
\* Ages given to createCharacter range over 0..MaxAge.
MaxAge == 2
\* Math.random() yields k / RandomSteps for k in 0..RandomSteps-1.
RandomSteps == 16
\* Word counts are m * 10^e and m * 10^e - 1, m in 1..MaxMantissa, e in 0..MaxExp.
MaxMantissa == 25
MaxExp == 6

----------------------------------------------------------------------------
\* Strings and values as JavaScript renders them.

\* Whether string sub occurs in string s (String.prototype.includes).
Contains(s, sub) ==
    \E i \in 1..(Len(s) + 1) :
        /\ i + Len(sub) - 1 <= Len(s)
        /\ SubSeq(s, i, i + Len(sub) - 1) = sub

\* The optional parameter o was given.
Provided(o) == o # <<>>

DigitChar(d) == SubSeq("0123456789", d + 1, d + 1)

RECURSIVE NatToString(_)
NatToString(n) ==
    IF n < 10 THEN DigitChar(n)
    ELSE NatToString(n \div 10) \o DigitChar(n % 10)

\* A plain rendering without grouping, as Number.prototype.toString gives.
NumberToString(n) ==
    IF n < 0 THEN "-" \o NatToString(-n) ELSE NatToString(n)

\* `${x}` of an integer number x in a template literal.
TemplateNumber(n) == NumberToString(n)

\* The three digits of a group after the first, zero padded.
Pad3(n) ==
    DigitChar(n \div 100) \o DigitChar((n \div 10) % 10) \o DigitChar(n % 10)

RECURSIVE GroupThousands(_)
GroupThousands(n) ==
    IF n < 1000 THEN NatToString(n)
    ELSE GroupThousands(n \div 1000) \o "," \o Pad3(n % 1000)

\* wordCount.toLocaleString() of an integer in the runtime's en-US locale.
toLocaleString(n) ==
    IF n < 0 THEN "-" \o GroupThousands(-n) ELSE GroupThousands(n)

\* JavaScript truthiness of an optional string: given and not empty.
TruthyString(o) == Provided(o) /\ o[1] # ""

\* JavaScript truthiness of an optional number: given and not 0.
TruthyNumber(o) == Provided(o) /\ o[1] # 0

\* The condition of `age ? ... : ""`.
AgeShown(age) == TruthyNumber(age)

----------------------------------------------------------------------------
\* The template generators.

\* tools.ts 28-40: the fixed text after the heading of brainstormStoryIdeas
brainstormBody ==
    ":\n"
    \o "\n"
    \o "1. **The Memory Thief**: A protagonist discovers they can steal memories from others, but each stolen memory replaces one of their own.\n"
    \o "\n"
    \o "2. **Time Capsule Mystery**: A character finds a time capsule from 50 years ago that contains a message addressed specifically to them.\n"
    \o "\n"
    \o "3. **The Last Library**: In a world where all books have been digitized, one person discovers the last physical library and the secrets it holds.\n"
    \o "\n"
    \o "4. **Parallel Lives**: A character meets their alternate self from a parallel universe, but something is subtly different about their counterpart.\n"
    \o "\n"
    \o "5. **The Emotion Market**: In a world where emotions can be bought and sold, someone discovers their emotions are being stolen.\n"
    \o "\n"
    \o "These ideas can be developed further with character development, world-building, and plot structure. Would you like me to elaborate on any of these concepts?"

\* tools.ts 63-66: the fixed text between the role line and the name in the background
characterBodyA ==
    "\n"
    \o "\n"
    \o "**Background:**\n"
    \o "- "

\* tools.ts 66-94: the fixed text after the name in the background
characterBodyB ==
    " grew up in a small town but always dreamed of something bigger\n"
    \o "- Has a secret talent they've never shared with anyone\n"
    \o "- Recently experienced a life-changing event that set them on their current path\n"
    \o "\n"
    \o "**Personality Traits:**\n"
    \o "- Curious and observant, often notices details others miss\n"
    \o "- Loyal to friends but sometimes struggles with trust\n"
    \o "- Has a dry sense of humor that emerges in stressful situations\n"
    \o "- Tends to overthink decisions but acts decisively when it matters most\n"
    \o "\n"
    \o "**Motivations:**\n"
    \o "- Primary: Seeks to understand their place in the world\n"
    \o "- Secondary: Wants to protect those they care about\n"
    \o "- Hidden: Fears being forgotten or insignificant\n"
    \o "\n"
    \o "**Strengths:**\n"
    \o "- Excellent at reading people and situations\n"
    \o "- Natural problem-solver\n"
    \o "- Adaptable and resourceful\n"
    \o "\n"
    \o "**Flaws:**\n"
    \o "- Sometimes too self-critical\n"
    \o "- Tends to take on others' problems as their own\n"
    \o "- Can be stubborn when they believe they're right\n"
    \o "\n"
    \o "**Character Arc Potential:**\n"
    \o "This character could grow from someone who doubts their own worth to someone who realizes their unique perspective makes them invaluable to their story's resolution.\n"
    \o "\n"
    \o "Would you like me to develop any aspect of this character further or create additional characters?"

\* tools.ts 192-194: the fixed closing text of trackWritingProgress
progressBody ==
    "\n"
    \o "\n"
    \o "Keep up the great work! Every word brings you closer to your goal. Would you like to set a target for your next writing session?"

\* tools.ts 213
prompt0 ==
    "Write about a character who discovers their reflection in a mirror is acting independently."

\* tools.ts 214
prompt1 ==
    "Create a dialogue between two people where one is lying, but the reader doesn't know which one."

\* tools.ts 215
prompt2 ==
    "Describe a setting where time moves differently than normal - maybe slower in some areas, faster in others."

\* tools.ts 216
prompt3 ==
    "Write a scene where a character must make an impossible choice between two things they love equally."

\* tools.ts 217
prompt4 ==
    "Start a story with the line: 'The last thing I expected to find in my grandmother's attic was...'"

\* tools.ts 218
prompt5 ==
    "Write about a character who can hear other people's thoughts, but only when they're thinking about them."

\* tools.ts 219
prompt6 ==
    "Create a scene where two old friends meet for the first time in years, but one of them doesn't recognize the other."

\* tools.ts 220
prompt7 ==
    "Write about a place that exists only in dreams, but someone finds a way to bring objects back from it."

\* tools.ts 227-241: the fixed text after the selected prompt
promptBody ==
    "\n"
    \o "\n"
    \o "**Tips for this prompt:**\n"
    \o "- Focus on sensory details to bring the scene to life\n"
    \o "- Consider the emotional impact on your characters\n"
    \o "- Think about what makes this situation unique or unexpected\n"
    \o "- Don't worry about perfect prose - just start writing!\n"
    \o "\n"
    \o "**Extension ideas:**\n"
    \o "- What happens next in this scenario?\n"
    \o "- How do other characters react?\n"
    \o "- What are the consequences of this situation?\n"
    \o "- How does this change your character's world?\n"
    \o "\n"
    \o "Set a timer for 15-30 minutes and see where this prompt takes you!"

\* tools.ts 262-297: the fixed text after the heading of createStoryOutline
outlineBody ==
    "\n"
    \o "\n"
    \o "**ACT I - Setup (25%)**\n"
    \o "- **Opening Scene:** Introduce protagonist in their ordinary world\n"
    \o "- **Inciting Incident:** Event that sets the story in motion\n"
    \o "- **Plot Point 1:** Character makes a decision that commits them to the journey\n"
    \o "\n"
    \o "**ACT II - Confrontation (50%)**\n"
    \o "- **First Obstacle:** Initial challenge that tests the protagonist\n"
    \o "- **Midpoint:** Major revelation or plot twist that changes everything\n"
    \o "- **Dark Moment:** Lowest point where all seems lost\n"
    \o "- **Plot Point 2:** Character finds inner strength or new approach\n"
    \o "\n"
    \o "**ACT III - Resolution (25%)**\n"
    \o "- **Climax:** Final confrontation with the main conflict\n"
    \o "- **Resolution:** How the character's world is changed\n"
    \o "- **Denouement:** Brief glimpse of the new normal\n"
    \o "\n"
    \o "**Character Arc:**\n"
    \o "- **Starting Point:** What the character wants vs. what they need\n"
    \o "- **Growth:** How they change throughout the story\n"
    \o "- **Ending:** How they're different by the end\n"
    \o "\n"
    \o "**Key Scenes to Develop:**\n"
    \o "1. The moment the protagonist realizes they can't go back\n"
    \o "2. A scene that shows the antagonist's motivation\n"
    \o "3. The protagonist's biggest failure and what they learn from it\n"
    \o "4. The moment of truth where character must choose their path\n"
    \o "\n"
    \o "**Questions to Consider:**\n"
    \o "- What does your character want most?\n"
    \o "- What's stopping them from getting it?\n"
    \o "- What do they learn about themselves?\n"
    \o "- How does the world change because of their journey?\n"
    \o "\n"
    \o "Would you like me to elaborate on any section of this outline?"

brainstormStoryIdeas(genre, theme, length) ==
    LET genreText == IF TruthyString(genre) THEN " in the " \o genre[1] \o " genre" ELSE ""
        themeText == IF TruthyString(theme) THEN " with a " \o theme[1] \o " theme" ELSE ""
        lengthText == IF TruthyString(length) THEN " for a " \o length[1] ELSE ""
    IN  "Here are some creative story ideas" \o genreText \o themeText \o lengthText
            \o brainstormBody

createCharacter(name, role, genre, age) ==
    LET nameText == IF TruthyString(name) THEN name[1] ELSE "Alex"
        ageText == IF AgeShown(age) THEN ", age " \o TemplateNumber(age[1]) ELSE ""
        genreText == IF TruthyString(genre) THEN " in a " \o genre[1] \o " story" ELSE ""
    IN  "**Character Profile: " \o nameText \o "**\n\n**Role:** " \o role \o genreText
            \o ageText \o characterBodyA \o nameText \o characterBodyB

\* A faulty variant of WordCountText: the word count is rendered without grouping.
WordCountTextPlain(wordCount) == NumberToString(wordCount)

\* ${wordCount.toLocaleString()}: the word count as the progress report shows it.
WordCountText(wordCount) == toLocaleString(wordCount)

trackWritingProgress(projectName, wordCount, milestone) ==
    LET milestoneText ==
            IF TruthyString(milestone) THEN "\n\n#### Milestone: " \o milestone[1] ELSE ""
    IN  "### Writing Progress Updated for \"" \o projectName \o "\"\n\nCurrent word count: "
            \o WordCountText(wordCount) \o " words" \o milestoneText \o progressBody

prompts == <<prompt0, prompt1, prompt2, prompt3, prompt4, prompt5, prompt6, prompt7>>

\* arr[i] of a JavaScript array of strings inside a template literal:
\* an index outside the array reads undefined.
ArrayGet(arr, i) == IF i \in 0..(Len(arr) - 1) THEN arr[i + 1] ELSE "undefined"

\* A faulty variant of PromptIndex: Math.round in place of Math.floor.
PromptIndexRounded(k) == (2 * k * Len(prompts) + RandomSteps) \div (2 * RandomSteps)

\* Math.floor(Math.random() * prompts.length), Math.random() being k / RandomSteps.
PromptIndex(k) == (k * Len(prompts)) \div RandomSteps

generateWritingPrompt(type, difficulty, k) ==
    LET typeText == IF TruthyString(type) THEN " (" \o type[1] \o " focused)" ELSE ""
        difficultyText ==
            IF TruthyString(difficulty) THEN " for " \o difficulty[1] \o " writers" ELSE ""
        selectedPrompt == ArrayGet(prompts, PromptIndex(k))
    IN  "### Writing Prompt" \o typeText \o difficultyText \o "\n\n**Prompt:** "
            \o selectedPrompt \o promptBody

createStoryOutline(storyTitle, genre, length, mainConflict) ==
    LET genreText == IF TruthyString(genre) THEN " (" \o genre[1] \o ")" ELSE ""
        lengthText == IF TruthyString(length) THEN " for a " \o length[1] ELSE ""
        conflictText ==
            IF TruthyString(mainConflict)
            THEN "\n\n**Main Conflict:** " \o mainConflict[1] ELSE ""
    IN  "#### Story Outline: \"" \o storyTitle \o "\"" \o genreText \o lengthText
            \o conflictText \o outlineBody

----------------------------------------------------------------------------
\* The two lookups.

ToolNames ==
    {"brainstormStoryIdeas", "createCharacter", "scheduleWritingSession",
     "getScheduledTasks", "cancelScheduledTask", "trackWritingProgress",
     "generateWritingPrompt", "createStoryOutline"}

\* The tools whose tool({...}) definition carries an execute function.
DefinedWithExecute ==
    {"brainstormStoryIdeas", "createCharacter", "scheduleWritingSession",
     "getScheduledTasks", "cancelScheduledTask", "trackWritingProgress",
     "generateWritingPrompt", "createStoryOutline"}

\* export const tools = { ... }
toolsExport == [n \in ToolNames |-> [execute |-> n \in DefinedWithExecute]]

\* A faulty variant of executionsExport: a tool that executes by itself is also gated.
executionsExportGated == {"cancelScheduledTask"}

\* export const executions = { }: every entry of the object is commented out.
executionsExport == {}

\* The auto-execute registry: the names whose descriptor carries execute.
AutoExecute == {n \in DOMAIN tools : tools[n].execute}

\* The confirmation-gated lookup: the names `executions` holds.
ConfirmationGated == executions

----------------------------------------------------------------------------
\* Inputs of the template generators.

Optional(S) == {<<>>} \cup {<<v>> : v \in S}

Genres == {"", "noir"}
Themes == {"", "revenge"}
Lengths == {"", "novella"}
Names == {"", "Marcus"}
Roles == {"mentor"}
Ages == 0..MaxAge
ProjectNames == {"Novel"}
Milestones == {"", "Chapter 5 complete"}
PromptTypes == {"", "dialogue"}
Difficulties == {"", "beginner"}
StoryTitles == {"The Last Library"}
Conflicts == {"", "betrayal"}

RECURSIVE Pow10(_)
Pow10(e) == IF e = 0 THEN 1 ELSE 10 * Pow10(e - 1)

WordCounts ==
    {0} \cup {m * Pow10(e) - s : m \in 1..MaxMantissa, e \in 0..MaxExp, s \in {0, 1}}

NoGen == [tool |-> "", args |-> <<>>, result |-> ""]

BrainstormStoryIdeas(genre, theme, length) ==
    /\ gen' = [tool |-> "brainstormStoryIdeas",
               args |-> [genre |-> genre, theme |-> theme, length |-> length],
               result |-> brainstormStoryIdeas(genre, theme, length)]
    /\ UNCHANGED <<tools, executions, store, nextId, inv>>

CreateCharacter(name, role, genre, age) ==
    /\ gen' = [tool |-> "createCharacter",
               args |-> [name |-> name, role |-> role, genre |-> genre, age |-> age],
               result |-> createCharacter(name, role, genre, age)]
    /\ UNCHANGED <<tools, executions, store, nextId, inv>>

TrackWritingProgress(projectName, wordCount, milestone) ==
    /\ gen' = [tool |-> "trackWritingProgress",
               args |-> [projectName |-> projectName, wordCount |-> wordCount,
                         milestone |-> milestone],
               result |-> trackWritingProgress(projectName, wordCount, milestone)]
    /\ UNCHANGED <<tools, executions, store, nextId, inv>>

\* k / RandomSteps is the value Math.random() returns in this call.
GenerateWritingPrompt(type, difficulty, k) ==
    /\ gen' = [tool |-> "generateWritingPrompt",
               args |-> [type |-> type, difficulty |-> difficulty, random |-> k],
               index |-> PromptIndex(k),
               result |-> generateWritingPrompt(type, difficulty, k)]
    /\ UNCHANGED <<tools, executions, store, nextId, inv>>

CreateStoryOutline(storyTitle, genre, length, mainConflict) ==
    /\ gen' = [tool |-> "createStoryOutline",
               args |-> [storyTitle |-> storyTitle, genre |-> genre, length |-> length,
                         mainConflict |-> mainConflict],
               result |-> createStoryOutline(storyTitle, genre, length, mainConflict)]
    /\ UNCHANGED <<tools, executions, store, nextId, inv>>

----------------------------------------------------------------------------
\* Values the schedule adapter handles, and how a template literal renders them.

DateValue(t) == [kind |-> "Date", num |-> t, str |-> ""]
NumberValue(n) == [kind |-> "number", num |-> n, str |-> ""]
StringValue(s) == [kind |-> "string", num |-> 0, str |-> s]
Undefined == [kind |-> "undefined", num |-> 0, str |-> ""]

Pad2(n) == DigitChar(n \div 10) \o DigitChar(n % 10)

\* Year, month and day of the day `days` days after 1970-01-01 (proleptic Gregorian).
CivilFromDays(days) ==
    LET z == days + 719468
        era == z \div 146097
        doe == z - era * 146097
        yoe == (doe - doe \div 1460 + doe \div 36524 - doe \div 146096) \div 365
        doy == doe - (365 * yoe + yoe \div 4 - yoe \div 100)
        mp == (5 * doy + 2) \div 153
        d == doy - (153 * mp + 2) \div 5 + 1
        m == IF mp < 10 THEN mp + 3 ELSE mp - 9
        y == yoe + era * 400 + (IF m <= 2 THEN 1 ELSE 0)
    IN  [year |-> y, month |-> m, day |-> d]

\* Date.prototype.toString of the instant t seconds after the epoch, in a runtime
\* whose time zone is UTC.
DateToString(t) ==
    LET days == t \div 86400
        sod == t % 86400
        c == CivilFromDays(days)
        w == (days + 4) % 7
    IN  SubSeq("SunMonTueWedThuFriSat", 3 * w + 1, 3 * w + 3) \o " "
        \o SubSeq("JanFebMarAprMayJunJulAugSepOctNovDec", 3 * c.month - 2, 3 * c.month)
        \o " " \o Pad2(c.day) \o " " \o NatToString(c.year) \o " "
        \o Pad2(sod \div 3600) \o ":" \o Pad2((sod \div 60) % 60) \o ":" \o Pad2(sod % 60)
        \o " GMT+0000 (Coordinated Universal Time)"

\* `${v}` of a value in a template literal.
ValueToString(v) ==
    CASE v.kind = "Date" -> DateToString(v.num)
      [] v.kind = "number" -> NumberToString(v.num)
      [] v.kind = "string" -> v.str
      [] OTHER -> "undefined"

\* An error object, and `${error}` of it (Error.prototype.toString).
ErrorObject(name, message) == [name |-> name, message |-> message]
NoError == ErrorObject("", "")
ErrorToString(e) == e.name \o ": " \o e.message

\* What a tool call resolves with: a string, or the array of task records.
NoResult == [kind |-> "none", text |-> "", tasks |-> <<>>]
Text(s) == [kind |-> "text", text |-> s, tasks |-> <<>>]
Tasks(ts) == [kind |-> "tasks", text |-> "", tasks |-> ts]

----------------------------------------------------------------------------
\* Inputs of the schedule-adapter tools.

ScheduleTypes == {"no-schedule", "scheduled", "delayed", "cron"}
\* 2026-11-05T09:00:00Z, in seconds after the epoch.
Dates == {1793869200}
Delays == {0, 30}
Crons == {"0 9 * * 1"}
Descriptions == {"write 500 words"}

\* The `when` objects: the schema lets every timing field accompany every type.
Whens ==
    {[type |-> t, date |-> d, delayInSeconds |-> s, cron |-> c] :
        t \in ScheduleTypes, d \in Dates, s \in Delays, c \in Crons}

NoWhen == [type |-> "", date |-> 0, delayInSeconds |-> 0, cron |-> ""]

\* The id of the n-th task record the scheduler creates.
Id(n) == "task-" \o NatToString(n)

\* The ids cancelScheduledTask is called with; the last one is never created.
TaskIds == {Id(n) : n \in 1..(MaxTasks + 1)}

\* Failures of the agent's scheduler.
AgentMissing == ErrorObject("TypeError", "Cannot read properties of undefined")
StorageFailure == ErrorObject("Error", "storage unavailable")
NotFound == ErrorObject("Error", "schedule not found")

----------------------------------------------------------------------------
\* The state of one invocation of a schedule-adapter tool.
\*   pc      "idle", "awaiting" (suspended at an await), "returned", "raised"
\*   calls   the calls it has made to the scheduler, in order
\*   ret     what its scheduler call returned: "promise", "list", "undefined"
\*   req     the request behind that call: "none", "threw" (the call threw),
\*           "pending", "fulfilled", "rejected"
\*   err     the error the call threw or its promise rejected with
\*   result  what the invocation resolved with

Slots == 1..MaxInv

NoArgs == [when |-> NoWhen, description |-> "", taskId |-> ""]

IdleSlot ==
    [pc |-> "idle", tool |-> "", args |-> NoArgs, calls |-> <<>>, ret |-> "",
     req |-> "none", err |-> NoError, result |-> NoResult]

ScheduleCall(input, callback, payload) ==
    [op |-> "schedule", input |-> input, callback |-> callback, payload |-> payload,
     id |-> ""]
GetSchedulesCall ==
    [op |-> "getSchedules", input |-> Undefined, callback |-> "", payload |-> "", id |-> ""]
\* A faulty variant of CancelScheduleCall: the first task is cancelled whatever id
\* was given.
CancelScheduleCallFirstId(id) ==
    [op |-> "cancelSchedule", input |-> Undefined, callback |-> "", payload |-> "",
     id |-> "task-1"]

CancelScheduleCall(id) ==
    [op |-> "cancelSchedule", input |-> Undefined, callback |-> "", payload |-> "",
     id |-> id]

IdsOf(ts) == {ts[k].id : k \in 1..Len(ts)}

\* The create requests issued and not yet settled.
PendingCreates ==
    Cardinality({i \in Slots : inv[i].tool = "scheduleWritingSession" /\ inv[i].req = "pending"})

----------------------------------------------------------------------------
\* scheduleWritingSession

\* A faulty variant of IsNoSchedule: the early return for "no-schedule" is missing.
IsNoScheduleNever(when) == FALSE

\* when.type === "no-schedule"
IsNoSchedule(when) == when.type = "no-schedule"

\* The conditional chain ends in throwError for a type that is none of the three.
TimingThrows(when) == when.type \notin {"scheduled", "delayed", "cron"}

\* A faulty variant of TimingInput: a delayed request is scheduled with its cron field.
TimingInputMixed(when) ==
    CASE when.type = "scheduled" -> DateValue(when.date)
      [] when.type = "delayed" -> StringValue(when.cron)
      [] when.type = "cron" -> StringValue(when.cron)
      [] OTHER -> Undefined

\* const input = when.type === "scheduled" ? when.date : ...
TimingInput(when) ==
    CASE when.type = "scheduled" -> DateValue(when.date)
      [] when.type = "delayed" -> NumberValue(when.delayInSeconds)
      [] when.type = "cron" -> StringValue(when.cron)
      [] OTHER -> Undefined

ScheduleRejectionText == "Not a valid schedule input"
ScheduleFailureText(e) == "Error scheduling task: " \o ErrorToString(e)
ScheduleConfirmationText(when, input) ==
    "Task scheduled for type \"" \o when.type \o "\" : " \o ValueToString(input)

\* How agent.schedule(...) comes back to its caller: it throws, or it returns the
\* promise of the task record.
ScheduleCallOutcomes ==
    {"throws"} \cup (IF nextId + PendingCreates < MaxTasks THEN {"promise"} ELSE {})

ScheduleWritingSession(i, when, description) ==
    /\ inv[i].pc = "idle"
    /\ LET started ==
               [IdleSlot EXCEPT !.tool = "scheduleWritingSession",
                                !.args = [NoArgs EXCEPT !.when = when,
                                                        !.description = description]]
           input == TimingInput(when)
           called ==
               [started EXCEPT !.calls = <<ScheduleCall(input, "executeTask", description)>>]
       IN  IF IsNoSchedule(when)
           THEN inv' = [inv EXCEPT ![i] =
                           [started EXCEPT !.pc = "returned",
                                           !.result = Text(ScheduleRejectionText)]]
           ELSE IF TimingThrows(when)
           THEN inv' = [inv EXCEPT ![i] =
                           [started EXCEPT !.pc = "raised",
                                           !.err = ErrorObject("Error",
                                                       "not a valid schedule input")]]
           ELSE \E outcome \in ScheduleCallOutcomes :
                   IF outcome = "throws"
                   THEN inv' = [inv EXCEPT ![i] =
                                   [called EXCEPT !.pc = "returned", !.req = "threw",
                                                  !.err = AgentMissing,
                                                  !.result = Text(ScheduleFailureText(AgentMissing))]]
                   \* The promise is dropped: the handler goes on to its return.
                   ELSE inv' = [inv EXCEPT ![i] =
                                   [called EXCEPT !.pc = "returned", !.ret = "promise",
                                                  !.req = "pending",
                                                  !.result = Text(ScheduleConfirmationText(when, input))]]
    /\ UNCHANGED <<tools, executions, store, nextId, gen>>

\* The scheduler stores the task record of a pending create request.
SchedulerCreates(i) ==
    /\ inv[i].tool = "scheduleWritingSession"
    /\ inv[i].req = "pending"
    /\ LET call == inv[i].calls[1]
       IN  store' = Append(store, [id |-> Id(nextId + 1), callback |-> call.callback,
                                   payload |-> call.payload, time |-> call.input])
    /\ nextId' = nextId + 1
    /\ inv' = [inv EXCEPT ![i].req = "fulfilled"]
    /\ UNCHANGED <<tools, executions, gen>>

\* The scheduler fails a pending create request: its promise rejects.
SchedulerRejectsCreate(i) ==
    /\ inv[i].tool = "scheduleWritingSession"
    /\ inv[i].req = "pending"
    /\ inv' = [inv EXCEPT ![i].req = "rejected", ![i].err = StorageFailure]
    /\ UNCHANGED <<tools, executions, store, nextId, gen>>

----------------------------------------------------------------------------
\* getScheduledTasks

ListEmptyText == "No scheduled tasks found."
ListFailureText(e) == "Error listing scheduled tasks: " \o ErrorToString(e)

\* A faulty variant of ListResult: the length check is missing.
ListResultUnchecked(ret, tasks) ==
    IF ret = "undefined" THEN Text(ListEmptyText) ELSE Tasks(tasks)

\* if (!tasks || tasks.length === 0) return "No scheduled tasks found."; return tasks;
ListResult(ret, tasks) ==
    IF ret = "undefined" \/ Len(tasks) = 0 THEN Text(ListEmptyText) ELSE Tasks(tasks)

\* How agent.getSchedules() comes back: the array of records, undefined, or it throws.
GetSchedulesOutcomes == {"list", "undefined", "throws"}

GetScheduledTasks(i) ==
    /\ inv[i].pc = "idle"
    /\ LET called ==
               [IdleSlot EXCEPT !.tool = "getScheduledTasks", !.calls = <<GetSchedulesCall>>]
       IN  \E outcome \in GetSchedulesOutcomes :
               IF outcome = "throws"
               THEN inv' = [inv EXCEPT ![i] =
                               [called EXCEPT !.pc = "returned", !.req = "threw",
                                              !.err = StorageFailure,
                                              !.result = Text(ListFailureText(StorageFailure))]]
               ELSE inv' = [inv EXCEPT ![i] =
                               [called EXCEPT !.pc = "returned", !.ret = outcome,
                                              !.req = "fulfilled",
                                              !.result = ListResult(outcome, store)]]
    /\ UNCHANGED <<tools, executions, store, nextId, gen>>

----------------------------------------------------------------------------
\* cancelScheduledTask

CancelSuccessText(taskId) == "Task " \o taskId \o " has been successfully canceled."
CancelFailureText(taskId, e) ==
    "Error canceling task " \o taskId \o ": " \o ErrorToString(e)

\* A faulty variant of CancelResultText: the catch block reports success too.
CancelResultTextSwallowed(taskId, req, e) == CancelSuccessText(taskId)

\* The try block returns the confirmation, the catch block the failure string.
CancelResultText(taskId, req, e) ==
    IF req = "fulfilled" THEN CancelSuccessText(taskId) ELSE CancelFailureText(taskId, e)

\* How agent.cancelSchedule(id) comes back: it throws, or it returns a promise.
CancelCallOutcomes == {"throws", "promise"}

\* A faulty variant of CancelScheduledTask: the promise of cancelSchedule is not awaited.
CancelScheduledTaskNotAwaited(i, taskId) ==
    /\ inv[i].pc = "idle"
    /\ LET called ==
               [IdleSlot EXCEPT !.tool = "cancelScheduledTask",
                                !.args = [NoArgs EXCEPT !.taskId = taskId],
                                !.calls = <<CancelScheduleCall(taskId)>>]
       IN  \E outcome \in CancelCallOutcomes :
               IF outcome = "throws"
               THEN inv' = [inv EXCEPT ![i] =
                               [called EXCEPT !.pc = "returned", !.req = "threw",
                                              !.err = AgentMissing,
                                              !.result = Text(CancelResultText(taskId, "threw", AgentMissing))]]
               ELSE inv' = [inv EXCEPT ![i] =
                               [called EXCEPT !.pc = "returned", !.ret = "promise",
                                              !.req = "pending",
                                              !.result = Text(CancelSuccessText(taskId))]]
    /\ UNCHANGED <<tools, executions, store, nextId, gen>>

\* A faulty variant of CancelScheduledTask: the handler first lists the schedules
\* to look the id up, then cancels, two requests to the scheduler.
CancelScheduledTaskWithLookup(i, taskId) ==
    /\ inv[i].pc = "idle"
    /\ LET called ==
               [IdleSlot EXCEPT !.tool = "cancelScheduledTask",
                                !.args = [NoArgs EXCEPT !.taskId = taskId],
                                !.calls = <<GetSchedulesCall, CancelScheduleCall(taskId)>>]
       IN  \E outcome \in CancelCallOutcomes :
               IF outcome = "throws"
               THEN inv' = [inv EXCEPT ![i] =
                               [called EXCEPT !.pc = "returned", !.req = "threw",
                                              !.err = AgentMissing,
                                              !.result = Text(CancelResultText(taskId, "threw", AgentMissing))]]
               ELSE inv' = [inv EXCEPT ![i] =
                               [called EXCEPT !.pc = "awaiting", !.ret = "promise",
                                              !.req = "pending"]]
    /\ UNCHANGED <<tools, executions, store, nextId, gen>>

\* The handler up to its await: it calls cancelSchedule and suspends on the promise.
CancelScheduledTask(i, taskId) ==
    /\ inv[i].pc = "idle"
    /\ LET called ==
               [IdleSlot EXCEPT !.tool = "cancelScheduledTask",
                                !.args = [NoArgs EXCEPT !.taskId = taskId],
                                !.calls = <<CancelScheduleCall(taskId)>>]
       IN  \E outcome \in CancelCallOutcomes :
               IF outcome = "throws"
               THEN inv' = [inv EXCEPT ![i] =
                               [called EXCEPT !.pc = "returned", !.req = "threw",
                                              !.err = AgentMissing,
                                              !.result = Text(CancelResultText(taskId, "threw", AgentMissing))]]
               ELSE inv' = [inv EXCEPT ![i] =
                               [called EXCEPT !.pc = "awaiting", !.ret = "promise",
                                              !.req = "pending"]]
    /\ UNCHANGED <<tools, executions, store, nextId, gen>>

\* The request an invocation has in flight: the last call it made.
RequestOf(s) == s.calls[Len(s.calls)]

\* The scheduler deletes the record a pending cancel request names.
SchedulerDeletes(i) ==
    /\ inv[i].tool = "cancelScheduledTask"
    /\ inv[i].req = "pending"
    /\ RequestOf(inv[i]).id \in IdsOf(store)
    /\ store' = SelectSeq(store, LAMBDA t : t.id # RequestOf(inv[i]).id)
    /\ inv' = [inv EXCEPT ![i].req = "fulfilled"]
    /\ UNCHANGED <<tools, executions, nextId, gen>>

\* The errors a pending cancel request can fail with: a missing record is reported
\* as not found.
DeleteFailures(taskId) ==
    IF taskId \in IdsOf(store) THEN {StorageFailure} ELSE {NotFound}

\* The scheduler fails a pending cancel request: its promise rejects.
SchedulerRejectsDelete(i) ==
    /\ inv[i].tool = "cancelScheduledTask"
    /\ inv[i].req = "pending"
    /\ \E e \in DeleteFailures(RequestOf(inv[i]).id) :
           inv' = [inv EXCEPT ![i].req = "rejected", ![i].err = e]
    /\ UNCHANGED <<tools, executions, store, nextId, gen>>

\* The handler after its await: the promise has settled.
CancelResumes(i) ==
    /\ inv[i].pc = "awaiting"
    /\ inv[i].req \in {"fulfilled", "rejected"}
    /\ inv' = [inv EXCEPT ![i].pc = "returned",
                          ![i].result = Text(CancelResultText(inv[i].args.taskId,
                                                              inv[i].req, inv[i].err))]
    /\ UNCHANGED <<tools, executions, store, nextId, gen>>

----------------------------------------------------------------------------
\* The caller takes the outcome of an invocation whose request has settled.
ResultConsumed(i) ==
    /\ inv[i].pc \in {"returned", "raised"}
    /\ inv[i].req # "pending"
    /\ inv' = [inv EXCEPT ![i] = IdleSlot]
    /\ UNCHANGED <<tools, executions, store, nextId, gen>>

----------------------------------------------------------------------------
\* Abandoned invocations.  The caller may drop an invocation that is suspended at
\* its await (a conversation reset): the handler never resumes, while the request
\* it has sent stays with the scheduler.

AbandonInvocation(i) ==
    /\ inv[i].pc = "awaiting"
    /\ inv' = [inv EXCEPT ![i].pc = "abandoned"]
    /\ UNCHANGED <<tools, executions, store, nextId, gen>>

\* Nothing refers to an abandoned invocation once its request has settled.
AbandonedInvocationEnds(i) ==
    /\ inv[i].pc = "abandoned"
    /\ inv[i].req # "pending"
    /\ inv' = [inv EXCEPT ![i] = IdleSlot]
    /\ UNCHANGED <<tools, executions, store, nextId, gen>>

----------------------------------------------------------------------------
\* Specifications.

Init ==
    /\ tools = toolsExport
    /\ executions = executionsExport
    /\ store = <<>>
    /\ nextId = 0
    /\ inv = [i \in Slots |-> IdleSlot]
    /\ gen = NoGen

\* The schedule-adapter tools and the scheduler they call.
Next ==
    \/ \E i \in Slots, when \in Whens, description \in Descriptions :
           ScheduleWritingSession(i, when, description)
    \/ \E i \in Slots : SchedulerCreates(i)
    \/ \E i \in Slots : SchedulerRejectsCreate(i)
    \/ \E i \in Slots : GetScheduledTasks(i)
    \/ \E i \in Slots, taskId \in TaskIds : CancelScheduledTask(i, taskId)
    \/ \E i \in Slots : SchedulerDeletes(i)
    \/ \E i \in Slots : SchedulerRejectsDelete(i)
    \/ \E i \in Slots : CancelResumes(i)
    \/ \E i \in Slots : ResultConsumed(i)

Spec == Init /\ [][Next]_vars

\* The template generators, each applied to every input of its bounded sets.
NextGen ==
    \/ \E genre \in Optional(Genres), theme \in Optional(Themes),
          length \in Optional(Lengths) :
           BrainstormStoryIdeas(genre, theme, length)
    \/ \E name \in Optional(Names), role \in Roles, genre \in Optional(Genres),
          age \in Optional(Ages) :
           CreateCharacter(name, role, genre, age)
    \/ \E projectName \in ProjectNames, wordCount \in WordCounts,
          milestone \in Optional(Milestones) :
           TrackWritingProgress(projectName, wordCount, milestone)
    \/ \E type \in Optional(PromptTypes), difficulty \in Optional(Difficulties),
          k \in 0..(RandomSteps - 1) :
           GenerateWritingPrompt(type, difficulty, k)
    \/ \E storyTitle \in StoryTitles, genre \in Optional(Genres),
          length \in Optional(Lengths), mainConflict \in Optional(Conflicts) :
           CreateStoryOutline(storyTitle, genre, length, mainConflict)

SpecGen == Init /\ [][NextGen]_vars

\* All eight tools together.  The schedule requests are the no-schedule, delayed
\* and cron ones with a delay of 30 seconds, and every template generator is
\* applied to one input.
AllWhens == {when \in Whens : when.delayInSeconds = 30 /\ when.type # "scheduled"}

NextAll ==
    \/ \E i \in Slots, when \in AllWhens, description \in Descriptions :
           ScheduleWritingSession(i, when, description)
    \/ \E i \in Slots : SchedulerCreates(i)
    \/ \E i \in Slots : SchedulerRejectsCreate(i)
    \/ \E i \in Slots : GetScheduledTasks(i)
    \/ \E i \in Slots, taskId \in TaskIds : CancelScheduledTask(i, taskId)
    \/ \E i \in Slots : SchedulerDeletes(i)
    \/ \E i \in Slots : SchedulerRejectsDelete(i)
    \/ \E i \in Slots : CancelResumes(i)
    \/ \E i \in Slots : ResultConsumed(i)
    \/ BrainstormStoryIdeas(<<"noir">>, <<>>, <<>>)
    \/ CreateCharacter(<<>>, "mentor", <<>>, <<1>>)
    \/ TrackWritingProgress("Novel", 25000, <<>>)
    \/ GenerateWritingPrompt(<<>>, <<>>, 0)
    \/ CreateStoryOutline("The Last Library", <<>>, <<>>, <<>>)

SpecAll == Init /\ [][NextAll]_vars

\* The schedule-adapter tools with a caller that may abandon a suspended invocation.
NextAbandon ==
    \/ \E i \in Slots, when \in Whens, description \in Descriptions :
           ScheduleWritingSession(i, when, description)
    \/ \E i \in Slots : SchedulerCreates(i)
    \/ \E i \in Slots : SchedulerRejectsCreate(i)
    \/ \E i \in Slots : GetScheduledTasks(i)
    \/ \E i \in Slots, taskId \in TaskIds : CancelScheduledTask(i, taskId)
    \/ \E i \in Slots : SchedulerDeletes(i)
    \/ \E i \in Slots : SchedulerRejectsDelete(i)
    \/ \E i \in Slots : CancelResumes(i)
    \/ \E i \in Slots : ResultConsumed(i)
    \/ \E i \in Slots : AbandonInvocation(i)
    \/ \E i \in Slots : AbandonedInvocationEnds(i)

SpecAbandon == Init /\ [][NextAbandon]_vars

----------------------------------------------------------------------------
\* Properties of the schedule adapter (checked under Spec).

IsScheduleInvocation(s) == s.tool = "scheduleWritingSession" /\ s.pc # "idle"
IsListInvocation(s) == s.tool = "getScheduledTasks" /\ s.pc # "idle"
IsCancelInvocation(s) == s.tool = "cancelScheduledTask" /\ s.pc # "idle"
Actionable(when) == when.type \in {"scheduled", "delayed", "cron"}

\* The timing value that belongs to the variant of `when`.
OwnTiming(when) ==
    CASE when.type = "scheduled" -> DateValue(when.date)
      [] when.type = "delayed" -> NumberValue(when.delayInSeconds)
      [] when.type = "cron" -> StringValue(when.cron)

\* C1: whenever the scheduler's create fails for an actionable request, by a throw
\* of the call or by the rejection of its promise, scheduleWritingSession has
\* returned the string "Error scheduling task: <error>", has not returned the
\* "Task scheduled" confirmation, and has not raised.
C1_CreateFailureIsReported ==
    \A i \in Slots :
        (/\ IsScheduleInvocation(inv[i])
         /\ Actionable(inv[i].args.when)
         /\ inv[i].req \in {"threw", "rejected"})
        => /\ inv[i].pc = "returned"
           /\ inv[i].result = Text("Error scheduling task: " \o ErrorToString(inv[i].err))
           /\ ~Contains(inv[i].result.text, "Task scheduled")

\* C2: a step that invokes scheduleWritingSession with the no-schedule variant, for
\* any description, returns the rejection string, makes no call to the scheduler
\* and leaves the scheduler's task records as they were.
C2_NoScheduleIsRejectedWithoutCall ==
    [][\A i \in Slots :
          (/\ inv[i].pc = "idle"
           /\ IsScheduleInvocation(inv'[i])
           /\ inv'[i].args.when.type = "no-schedule")
          => /\ inv'[i].pc = "returned"
             /\ inv'[i].result = Text("Not a valid schedule input")
             /\ inv'[i].calls = <<>>
             /\ inv'[i].req = "none"
             /\ store' = store
             /\ nextId' = nextId]_vars

\* A no-schedule request was rejected while the scheduler held a task record.
C2_Witness ==
    \E i \in Slots :
        /\ IsScheduleInvocation(inv[i])
        /\ inv[i].args.when.type = "no-schedule"
        /\ inv[i].args.description = "write 500 words"
        /\ inv[i].pc = "returned"
        /\ Len(store) > 0

\* C3: an actionable request makes exactly one call to the scheduler, create with the
\* variant's own timing value, the callback name "executeTask" and the given
\* description; when the create succeeds the result is a confirmation that names
\* the variant and contains the timing value (a delay of 30 gives "30").
C3_ActionableRequestCreatesOnce ==
    \A i \in Slots :
        (IsScheduleInvocation(inv[i]) /\ Actionable(inv[i].args.when))
        => LET when == inv[i].args.when
               text == inv[i].result.text
           IN  /\ inv[i].calls =
                      <<ScheduleCall(OwnTiming(when), "executeTask", inv[i].args.description)>>
               /\ inv[i].req = "fulfilled"
                  => /\ inv[i].pc = "returned"
                     /\ inv[i].result.kind = "text"
                     /\ Contains(text, "Task scheduled")
                     /\ Contains(text, "\"" \o when.type \o "\"")
                     /\ Contains(text, ValueToString(OwnTiming(when)))
                     /\ (when.type = "delayed" /\ when.delayInSeconds = 30)
                        => Contains(text, ": 30")
                     /\ when.type = "scheduled" => Contains(text, "Nov 05 2026 09:00:00")

\* A delayed request of 30 seconds was created and confirmed with "30".
C3_Witness ==
    \E i \in Slots :
        /\ IsScheduleInvocation(inv[i])
        /\ inv[i].args.when.type = "delayed"
        /\ inv[i].args.when.delayInSeconds = 30
        /\ inv[i].req = "fulfilled"
        /\ Contains(inv[i].result.text, "30")
        /\ \E k \in 1..Len(store) :
               store[k].time = NumberValue(30) /\ store[k].payload = "write 500 words"

\* C4: cancelScheduledTask has no result while its delete is pending; it returns
\* "Task <id> has been successfully canceled." only when the delete has completed
\* (the record is then gone), and when the delete fails it returns the failure
\* string that names the id and the error.
C4_SuccessOnlyAfterDelete ==
    \A i \in Slots :
        IsCancelInvocation(inv[i])
        => LET id == inv[i].args.taskId
               success == Text("Task " \o id \o " has been successfully canceled.")
           IN  /\ inv[i].req = "pending" => inv[i].result = NoResult
               /\ inv[i].result = success
                  => inv[i].req = "fulfilled" /\ id \notin IdsOf(store)
               /\ (inv[i].pc = "returned" /\ inv[i].req = "fulfilled")
                  => inv[i].result = success
               /\ (inv[i].pc = "returned" /\ inv[i].req \in {"rejected", "threw"})
                  => inv[i].result =
                         Text("Error canceling task " \o id \o ": "
                                  \o ErrorToString(inv[i].err))

\* A cancel returned its confirmation after the scheduler deleted the record.
C4_Witness ==
    \E i \in Slots :
        /\ IsCancelInvocation(inv[i])
        /\ inv[i].pc = "returned"
        /\ inv[i].req = "fulfilled"
        /\ Contains(inv[i].result.text, "successfully canceled")

\* C5: when the scheduler settles a cancel request for an id none of its records
\* has, the request is rejected; a cancel whose request was rejected returns a
\* failure string that contains the id, not the confirmation; and no cancel raises.
C5_MissingIdIsReported ==
    [][\A i \in Slots :
          IsCancelInvocation(inv'[i])
          => LET id == inv'[i].args.taskId
             IN  /\ (/\ inv[i].req = "pending"
                     /\ inv'[i].req # "pending"
                     /\ id \notin IdsOf(store))
                    => inv'[i].req = "rejected" /\ store' = store
                 /\ inv'[i].pc # "raised"
                 /\ (inv'[i].pc = "returned" /\ inv'[i].req = "rejected")
                    => /\ inv'[i].result.kind = "text"
                       /\ Contains(inv'[i].result.text, "Error canceling task")
                       /\ Contains(inv'[i].result.text, id)
                       /\ ~Contains(inv'[i].result.text, "successfully canceled")]_vars

\* A cancel of the id that is never created returned the failure string with it.
C5_Witness ==
    \E i \in Slots :
        /\ IsCancelInvocation(inv[i])
        /\ inv[i].args.taskId = Id(MaxTasks + 1)
        /\ inv[i].pc = "returned"
        /\ inv[i].req = "rejected"
        /\ inv[i].err = NotFound
        /\ Contains(inv[i].result.text, inv[i].args.taskId)

\* C6: a step that invokes getScheduledTasks returns the scheduler's records, as
\* they are, when getSchedules gives a non-empty array; "No scheduled tasks found."
\* when it gives an empty array or nothing; the failure string when it throws; and
\* the step neither raises nor changes the records.
C6_ListReturnsTheRecords ==
    [][\A i \in Slots :
          (inv[i].pc = "idle" /\ IsListInvocation(inv'[i]))
          => /\ inv'[i].pc = "returned"
             /\ store' = store
             /\ (inv'[i].ret = "list" /\ store # <<>>)
                => inv'[i].result = [kind |-> "tasks", text |-> "", tasks |-> store]
             /\ (inv'[i].ret = "undefined" \/ (inv'[i].ret = "list" /\ store = <<>>))
                => inv'[i].result = Text("No scheduled tasks found.")
             /\ inv'[i].req = "threw"
                => inv'[i].result =
                       Text("Error listing scheduled tasks: " \o ErrorToString(inv'[i].err))
             /\ inv'[i].ret \in {"list", "undefined"} \/ inv'[i].req = "threw"]_vars

\* getScheduledTasks returned two task records.
C6_Witness ==
    \E i \in Slots :
        /\ IsListInvocation(inv[i])
        /\ inv[i].result.kind = "tasks"
        /\ Len(inv[i].result.tasks) = 2
        /\ inv[i].result.tasks = store

\* C7: in every state each of the eight tool names is in exactly one of the two
\* lookups, the auto-execute registry or the confirmation-gated one.
C7_ExactlyOneLookup ==
    /\ Cardinality(ToolNames) = 8
    /\ DOMAIN tools = ToolNames
    /\ ConfirmationGated \subseteq ToolNames
    /\ \A n \in ToolNames : (n \in AutoExecute) # (n \in ConfirmationGated)

\* The lookups are intact after tools have run and a task record was created.
C7_Witness ==
    /\ \E i \in Slots : inv[i].pc = "returned"
    /\ Len(store) > 0
    /\ "cancelScheduledTask" \in AutoExecute
    /\ "cancelScheduledTask" \notin ConfirmationGated

----------------------------------------------------------------------------
\* Properties of the template generators (checked under SpecGen).

\* The text of an optional parameter of gen, as the output shows it.
Shown(o) == IF Provided(o) THEN o[1] ELSE ""

\* C8: the result of every template generator is non-empty and contains the value
\* of every optional parameter that was given, an age of 0 included.
C8_ProvidedValuesAppear ==
    /\ gen.tool # "" => gen.result # ""
    /\ gen.tool = "brainstormStoryIdeas"
       => /\ Contains(gen.result, Shown(gen.args.genre))
          /\ Contains(gen.result, Shown(gen.args.theme))
          /\ Contains(gen.result, Shown(gen.args.length))
    /\ gen.tool = "createCharacter"
       => /\ Contains(gen.result, Shown(gen.args.name))
          /\ Contains(gen.result, Shown(gen.args.genre))
          /\ Provided(gen.args.age) => Contains(gen.result, NumberToString(gen.args.age[1]))
    /\ gen.tool = "trackWritingProgress"
       => Contains(gen.result, Shown(gen.args.milestone))
    /\ gen.tool = "generateWritingPrompt"
       => /\ Contains(gen.result, Shown(gen.args.type))
          /\ Contains(gen.result, Shown(gen.args.difficulty))
    /\ gen.tool = "createStoryOutline"
       => /\ Contains(gen.result, Shown(gen.args.genre))
          /\ Contains(gen.result, Shown(gen.args.length))
          /\ Contains(gen.result, Shown(gen.args.mainConflict))

\* C9: the index generateWritingPrompt computes is an integer in 0..7 and the prompt
\* in its result is one of the eight candidate prompts, never undefined.
C9_PromptIsACandidate ==
    gen.tool = "generateWritingPrompt"
    => /\ Len(prompts) = 8
       /\ gen.index \in 0..7
       /\ \E k \in 1..Len(prompts) :
              Contains(gen.result, "**Prompt:** " \o prompts[k] \o "\n\n**Tips")
       /\ ~Contains(gen.result, "**Prompt:** undefined")

\* The largest random value selected the last candidate prompt.
C9_Witness ==
    /\ gen.tool = "generateWritingPrompt"
    /\ gen.args.random = RandomSteps - 1
    /\ gen.index = 7
    /\ Contains(gen.result, prompts[8])

\* The text of s between the first label and the next " words".
WordCountShown(s) ==
    LET label == "Current word count: "
        at(p, t) == p + Len(t) - 1 <= Len(s) /\ SubSeq(s, p, p + Len(t) - 1) = t
        i == CHOOSE p \in 1..Len(s) : at(p, label) /\ \A q \in 1..(p - 1) : ~at(q, label)
        from == i + Len(label)
        j == CHOOSE p \in from..Len(s) : at(p, " words") /\ \A q \in from..(p - 1) : ~at(q, " words")
    IN  SubSeq(s, from, j - 1)

RECURSIVE StripSeparators(_)
StripSeparators(g) ==
    IF g = "" THEN ""
    ELSE IF SubSeq(g, 1, 1) = "," THEN StripSeparators(Tail(g))
    ELSE SubSeq(g, 1, 1) \o StripSeparators(Tail(g))

\* g shows n with thousands grouping: counted from the right every fourth
\* character, and no other, is the separator; it does not start with one; and
\* without the separators it is the decimal numeral of n.
IsGrouped(g, n) ==
    /\ Len(g) >= 1
    /\ Len(g) % 4 # 0
    /\ \A p \in 1..Len(g) : (SubSeq(g, p, p) = ",") <=> ((Len(g) - p + 1) % 4 = 0)
    /\ StripSeparators(g) = NatToString(n)

\* C10: for every project name and non-negative integer word count the result of
\* trackWritingProgress contains the project name and the word count with
\* thousands grouping (25000 as "25,000").
C10_WordCountIsGrouped ==
    gen.tool = "trackWritingProgress"
    => /\ Contains(gen.result, gen.args.projectName)
       /\ Contains(gen.result, "Current word count: ")
       /\ IsGrouped(WordCountShown(gen.result), gen.args.wordCount)
       /\ gen.args.wordCount = 25000 => Contains(gen.result, ": 25,000 words")

\* The progress of "Novel" at 25000 words was reported as "25,000".
C10_Witness ==
    /\ gen.tool = "trackWritingProgress"
    /\ gen.args.projectName = "Novel"
    /\ gen.args.wordCount = 25000
    /\ Contains(gen.result, "25,000")
    /\ Contains(gen.result, "Novel")

----------------------------------------------------------------------------
\* Properties of the scheduler's records under all tools (checked under SpecAll) and
\* under abandonment (checked under SpecAbandon).

\* The request of invocation i is fulfilled in this step.
Fulfilled(i) == inv[i].req = "pending" /\ inv'[i].req = "fulfilled"

\* st without the record whose id is id, every other record as it was.
Without(st, id) == SelectSeq(st, LAMBDA t : t.id # id)

\* C11: every step leaves every record that stays in the store as it was (timing,
\* callback name and payload); the store changes only when a create of
\* scheduleWritingSession succeeds, which adds one record at the end, or when the
\* delete of cancelScheduledTask succeeds, which removes the record with the given
\* id and no other; a successful create adds exactly one record; getScheduledTasks
\* and the template generators change nothing.
C11_RecordsChangeOnlyByCreateAndDelete ==
    [][/\ \A k \in 1..Len(store), l \in 1..Len(store') :
              store[k].id = store'[l].id => store[k] = store'[l]
       /\ store' # store
          => \/ \E i \in Slots :
                    /\ inv[i].tool = "scheduleWritingSession"
                    /\ Fulfilled(i)
                    /\ Len(store') = Len(store) + 1
                    /\ SubSeq(store', 1, Len(store)) = store
                    /\ store'[Len(store')].id \notin IdsOf(store)
                    /\ store'[Len(store')].time = OwnTiming(inv[i].args.when)
                    /\ store'[Len(store')].callback = "executeTask"
                    /\ store'[Len(store')].payload = inv[i].args.description
             \/ \E i \in Slots :
                    /\ inv[i].tool = "cancelScheduledTask"
                    /\ Fulfilled(i)
                    /\ inv[i].args.taskId \in IdsOf(store)
                    /\ store' = Without(store, inv[i].args.taskId)
                    /\ Len(store') = Len(store) - 1
       /\ \A i \in Slots :
              (inv[i].tool = "scheduleWritingSession" /\ Fulfilled(i))
              => Len(store') = Len(store) + 1
       /\ \A i \in Slots :
              (inv[i].tool = "cancelScheduledTask" /\ Fulfilled(i))
              => store' = Without(store, inv[i].args.taskId)
       /\ \A i \in Slots :
              (inv[i].pc = "idle" /\ IsListInvocation(inv'[i])) => store' = store
       /\ gen' # gen => store' = store]_vars

\* The second of two records survived the cancel of the first, unchanged, and a
\* template generator has run.
C11_Witness ==
    /\ \E i \in Slots :
           /\ IsCancelInvocation(inv[i])
           /\ inv[i].args.taskId = "task-1"
           /\ inv[i].req = "fulfilled"
    /\ Len(store) = 1
    /\ store[1].id = "task-2"
    /\ store[1].callback = "executeTask"
    /\ store[1].time = NumberValue(30)
    /\ gen.tool = "trackWritingProgress"

\* The store after the scheduler has applied call in full: the new record at the
\* end for a create, the named record gone for a cancel.
AppliedInFull(call, before, after) ==
    CASE call.op = "schedule" ->
             /\ Len(after) = Len(before) + 1
             /\ SubSeq(after, 1, Len(before)) = before
             /\ after[Len(after)].id \notin IdsOf(before)
             /\ after[Len(after)].time = call.input
             /\ after[Len(after)].callback = call.callback
             /\ after[Len(after)].payload = call.payload
      [] call.op = "cancelSchedule" -> after = Without(before, call.id)
      [] OTHER -> after = before

====
